---------------------------- MODULE Spec2Model ----------------------------
(***************************************************************************)
(* Model of the client-side Building object: the ceiling visibility        *)
(* resolver (Building.toggleCeiling), the ceiling alpha transition it      *)
(* starts, and the update / destroy handlers that interfere with it.       *)
(*                                                                         *)
(* Geometry is abstracted to what toggleCeiling asks of the hitbox         *)
(* library: for every member shape of the ceiling hitbox the distance of   *)
(* the viewer to it, for every sampled ray whether it reaches the ceiling  *)
(* hitbox, and for every occluder which rays its hitbox intersects.        *)
(* Angles are integers in micro-radians, alpha is an integer in percent.   *)
(***************************************************************************)
EXTENDS Integers, Sequences, FiniteSets, TLC

VARIABLES
    phase,           \* "constructing" | "live" | "faulted" | "destroyed"
    definition,      \* Building.definition
    position,        \* GameObject.position
    orientation,     \* Building.orientation
    layer,           \* GameObject.layer
    hitbox,          \* Building.hitbox
    damageable,      \* GameObject.damageable
    dead,            \* GameObject.dead
    ceilingHitbox,   \* Building.ceilingHitbox
    ceilingTween,    \* Building.ceilingTween
    ceilingVisible,  \* Building.ceilingVisible
    alpha,           \* Building.ceilingContainer.alpha, in percent
    scene,           \* game.activePlayer, game.objects and the geometry between them
    last,            \* observation of the most recent toggleCeiling call
    starts,          \* transitions started since the scenario last changed
    seen,            \* evaluations made since the scenario last changed
    tweens           \* Game.tweens: the ceiling tweens the game updates

vars == <<phase, definition, position, orientation, layer, hitbox, damageable,
          dead, ceilingHitbox, ceilingTween, ceilingVisible, alpha, scene, last,
          starts, seen, tweens>>

building == <<phase, definition, position, orientation, layer, hitbox,
              damageable, dead, ceilingHitbox>>

Undef == [kind |-> "undefined"]

-----------------------------------------------------------------------------
(* Bounds *)

MaxMembers == 2      \* member shapes of a ceiling hitbox
MaxOccluders == 2    \* objects in the obstacle and building categories
MaxStarts == 2       \* cap of the count of transitions started

-----------------------------------------------------------------------------
(* Program constants *)

visionSize == 14
HalfPi == 1570796          \* Math.PI / 2 in micro-radians
SweepStep == 100000        \* 0.1 rad in micro-radians
DefaultDuration == 150
LayerChangeDuration == 0
ShowDuration == 300
AlphaHidden == 0
AlphaShown == 100          \* alpha 1, in percent
GroundLayer == 0

-----------------------------------------------------------------------------
(* Hitboxes (common/src/utils/hitbox) *)

\* A shape is a circle, a rectangle or a polygon placed in world space; a
\* group hitbox holds a sequence of shapes.
Circle(r) == [kind |-> "circle", radius |-> r, at |-> 0, rot |-> 0]
Rectangle == [kind |-> "rect", radius |-> 0, at |-> 0, rot |-> 0]
Polygon == [kind |-> "polygon", radius |-> 0, at |-> 0, rot |-> 0]
Group(shapes) == [kind |-> "group", hitboxes |-> shapes, at |-> 0, rot |-> 0]

\* Hitbox.transform(position, 1, orientation): a copy placed at the position
\* and turned by the orientation; the argument is left as it is.
Transform(h, pos, orient) ==
    IF h = Undef THEN Undef ELSE [h EXCEPT !.at = pos, !.rot = orient]

\* Collision.circleCircleIntersection(centerA, radiusA, centerB, radiusB):
\* a response (with a direction) when the two circles overlap, null
\* otherwise.  dist is the distance between the two centres.
circleCircleIntersection(dist, radiusA, radiusB) == dist < radiusA + radiusB

\* Collision.rectCircleIntersection(min, max, pos, radius): a response
\* when the circle overlaps the rectangle, null otherwise.  dist is the
\* distance from the circle's centre to the rectangle (0 inside it).
rectCircleIntersection(dist, radius) == dist < radius

\* isGroundLayer(layer) (common/src/utils/layer)
isGroundLayer(l) == l = GroundLayer

-----------------------------------------------------------------------------
(* The sweep of toggleCeiling.  A ray of the sweep of one member is        *)
(* identified by its offset i from the member's direction angle; the       *)
(* geometry of the scene answers per zone of the sweep.                    *)

Zones == {"first", "mid", "last"}

\* the zone of the sample at offset i: the first sample, the last sample
\* of the sweep, or one in between
ZoneOf(i) ==
    IF i = -HalfPi THEN "first"
    ELSE IF i + SweepStep < HalfPi THEN "mid" ELSE "last"

\* const hitboxes = this.ceilingHitbox instanceof GroupHitbox
\*     ? this.ceilingHitbox.hitboxes : [this.ceilingHitbox]
MemberList(h) == IF h.kind = "group" THEN h.hitboxes ELSE <<h>>

\* collision?.dir of the switch: is a direction obtained for member m
HasDirection(shape, geo) ==
    CASE shape.kind = "circle" ->
            circleCircleIntersection(geo.dist, shape.radius, visionSize)
      [] shape.kind = "rect" ->
            rectCircleIntersection(geo.dist, visionSize)
      [] OTHER -> FALSE

\* this.ceilingHitbox.intersectsLine(player.position, player.position +
\* visionSize * (cos i, sin i))?.point is defined
RayEnd(geo, i) == ZoneOf(i) \in geo.reach

\* hitbox?.intersectsLine(player.position, end) of an occluder
OccluderIntersects(o, i) ==
    o.hitbox # Undef /\ ZoneOf(i) \in o.hitbox.crosses

\* the predicate with a test that the occluder is on the viewer's layer
Blocks_SameLayer(o, i) ==
    /\ o.damageable
    /\ ~o.dead
    /\ (~o.definition.hasRole \/ ~o.definition.isWindow)
    /\ o.layer = scene.activePlayer.layer
    /\ OccluderIntersects(o, i)

\* the predicate handed to some(): the occluder blocks the ray at offset i
Blocks(o, i) ==
    /\ o.damageable
    /\ ~o.dead
    /\ (~o.definition.hasRole \/ ~o.definition.isWindow)
    /\ OccluderIntersects(o, i)

\* [...getCategory(Obstacle), ...getCategory(Building)]
getCategory(objects, cat) == SelectSeq(objects, LAMBDA o : o.category = cat)
Candidates(objects) ==
    getCategory(objects, "obstacle") \o getCategory(objects, "building")

\* some() looking at the first candidate only
SomeBlocks_First(candidates, i) ==
    Len(candidates) > 0 /\ Blocks(candidates[1], i)

\* some() over the candidates
SomeBlocks(candidates, i) ==
    \E n \in 1..Len(candidates) : Blocks(candidates[n], i)

\* the loop over i bounded by a full turn instead of the half turn of line
\* 131: i < angle + halfPi + Math.PI
RECURSIVE Sweep_FullTurn(_, _, _, _, _)
Sweep_FullTurn(geo, candidates, i, collided, casts) ==
    IF ~(i < 3 * HalfPi) THEN [collided |-> collided, casts |-> casts]
    ELSE IF ~RayEnd(geo, i)
         THEN Sweep_FullTurn(geo, candidates, i + SweepStep, TRUE, casts + 1)
         ELSE IF ~SomeBlocks(candidates, i)
              THEN [collided |-> FALSE, casts |-> casts + 1]
              ELSE Sweep_FullTurn(geo, candidates, i + SweepStep, TRUE,
                                  casts + 1)

\* the loop over i without the assignment of line 147: a sample that misses
\* the hitbox leaves collided as line 132 set it
RECURSIVE Sweep_MissUnmarked(_, _, _, _, _)
Sweep_MissUnmarked(geo, candidates, i, collided, casts) ==
    IF ~(i < HalfPi) THEN [collided |-> collided, casts |-> casts]
    ELSE IF ~RayEnd(geo, i)
         THEN Sweep_MissUnmarked(geo, candidates, i + SweepStep, FALSE,
                                 casts + 1)
         ELSE IF ~SomeBlocks(candidates, i)
              THEN [collided |-> FALSE, casts |-> casts + 1]
              ELSE Sweep_MissUnmarked(geo, candidates, i + SweepStep, TRUE,
                                      casts + 1)

\* the for loop over i of one member, entered at offset i with the value
\* collided has at that point and casts rays cast so far; yields the value
\* of collided after the loop and the number of rays cast
RECURSIVE Sweep(_, _, _, _, _)
Sweep(geo, candidates, i, collided, casts) ==
    IF ~(i < HalfPi) THEN [collided |-> collided, casts |-> casts]
    ELSE IF ~RayEnd(geo, i)
         THEN Sweep(geo, candidates, i + SweepStep, TRUE, casts + 1)
         ELSE IF ~SomeBlocks(candidates, i)
              THEN [collided |-> FALSE, casts |-> casts + 1]
              ELSE Sweep(geo, candidates, i + SweepStep, TRUE, casts + 1)

\* the loop body with line 171 run whether or not there is a direction:
\* without one collided is still false
MemberResult_Unguarded(shape, geo, candidates) ==
    IF HasDirection(shape, geo)
    THEN LET r == Sweep(geo, candidates, -HalfPi, FALSE, 0)
         IN  [visible |-> ~r.collided, casts |-> r.casts]
    ELSE [visible |-> TRUE, casts |-> 0]

\* one pass of the loop body for a member: its value of visible and the
\* rays it cast
MemberResult(shape, geo, candidates) ==
    IF HasDirection(shape, geo)
    THEN LET r == Sweep(geo, candidates, -HalfPi, FALSE, 0)
         IN  [visible |-> ~r.collided, casts |-> r.casts]
    ELSE [visible |-> FALSE, casts |-> 0]

\* the loop over the members without the break of line 176: every member
\* is scanned and the last one decides
RECURSIVE MemberScan_NoBreak(_, _, _, _, _)
MemberScan_NoBreak(members, geos, candidates, m, casts) ==
    IF m > Len(members) THEN [visible |-> FALSE, casts |-> casts]
    ELSE LET r == MemberResult(members[m], geos[m], candidates)
         IN  IF m = Len(members)
             THEN [visible |-> r.visible, casts |-> casts + r.casts]
             ELSE MemberScan_NoBreak(members, geos, candidates, m + 1,
                                     casts + r.casts)

\* the for loop over the members from index m on, with break on visible
RECURSIVE MemberScan(_, _, _, _, _)
MemberScan(members, geos, candidates, m, casts) ==
    IF m > Len(members) THEN [visible |-> FALSE, casts |-> casts]
    ELSE LET r == MemberResult(members[m], geos[m], candidates)
         IN  IF r.visible
             THEN [visible |-> TRUE, casts |-> casts + r.casts]
             ELSE MemberScan(members, geos, candidates, m + 1,
                             casts + r.casts)

\* Resolve without the overlap test of line 64: the arc cast decides alone
Resolve_NoFastPath(h, sc) ==
    LET r == MemberScan(MemberList(h), sc.geo, Candidates(sc.objects), 1, 0)
    IN  [visible |-> r.visible, duration |-> DefaultDuration,
         casts |-> r.casts]

\* Resolve with the duration of line 62 kept on the fast path
Resolve_FlatDuration(h, sc) ==
    IF sc.activePlayer.collides
    THEN [visible |-> TRUE, duration |-> DefaultDuration, casts |-> 0]
    ELSE LET r == MemberScan(MemberList(h), sc.geo,
                             Candidates(sc.objects), 1, 0)
         IN  [visible |-> r.visible, duration |-> DefaultDuration,
              casts |-> r.casts]

\* a resolver whose arc cast gives way to the stored boolean: a roof
\* already hidden is resolved shown
Resolve_Stored(h, sc) ==
    IF sc.activePlayer.collides
    THEN [visible |-> TRUE,
          duration |-> IF ~isGroundLayer(sc.activePlayer.layer)
                       THEN LayerChangeDuration ELSE DefaultDuration,
          casts |-> 0]
    ELSE LET r == MemberScan(MemberList(h), sc.geo,
                               Candidates(sc.objects), 1, 0)
         IN  [visible |-> r.visible /\ ~ceilingVisible,
              duration |-> DefaultDuration, casts |-> r.casts]

\* the values of visible and duration at line 180, and the rays cast
Resolve(h, sc) ==
    IF sc.activePlayer.collides
    THEN [visible |-> TRUE,
          duration |-> IF ~isGroundLayer(sc.activePlayer.layer)
                       THEN LayerChangeDuration ELSE DefaultDuration,
          casts |-> 0]
    ELSE LET r == MemberScan(MemberList(h), sc.geo,
                               Candidates(sc.objects), 1, 0)
         IN  [visible |-> r.visible, duration |-> DefaultDuration,
              casts |-> r.casts]

-----------------------------------------------------------------------------
(* Tweens (client utils/tween, Game.addTween) *)

\* EaseFunctions.sineOut at elapsed / duration, in percent, on quarters
SineOut(elapsed, duration) ==
    <<0, 38, 71, 92, 100>>[((4 * elapsed) \div duration) + 1]

\* the value a tween writes to its target's alpha after elapsed of duration
TweenValue(t, elapsed) ==
    t.from + ((t.to - t.from) * SineOut(elapsed, t.duration)) \div 100

\* game.addTween({target, to: {alpha: to}, duration, ease, onComplete}): a
\* tween from the target's present alpha, registered with the game
addTween(to, duration, from) ==
    [kind |-> "tween", from |-> from, to |-> to, duration |-> duration,
     elapsed |-> 0, killed |-> FALSE]

\* Tween.kill(): removes the tween from the game's tweens; it is updated no
\* more and its onComplete is not called
kill(t) == IF t = Undef THEN t ELSE [t EXCEPT !.killed = TRUE]

\* the tween is among the game's tweens: added and neither completed nor
\* killed
Registered(t) == t # Undef /\ ~t.killed

\* the observation when the last step was not a toggleCeiling call
NoCall ==
    [call |-> FALSE, ran |-> FALSE, visible |-> FALSE, duration |-> 0,
     casts |-> 0, started |-> FALSE, update |-> "none"]

\* the observation of an updateFromData call: with or without full data
Updated(data) ==
    [NoCall EXCEPT !.update = IF data.full # Undef THEN "full" ELSE "partial"]

\* time steps of the game's tween update
TickSteps == {75, 150}

\* One update of the game's tweens: Tween.update() of the ceiling tween.  At
\* or past its end time the tween writes the end value, removes itself and
\* calls onComplete (lines 189-191), else it writes the eased value.
TweenUpdate(dt) ==
    /\ ceilingTween # Undef
    /\ ~ceilingTween.killed
    /\ LET e == ceilingTween.elapsed + dt
       IN  IF e >= ceilingTween.duration
           THEN /\ alpha' = ceilingTween.to
                /\ ceilingTween' = Undef
                /\ tweens' = tweens - 1
           ELSE /\ alpha' = TweenValue(ceilingTween, e)
                /\ ceilingTween' = [ceilingTween EXCEPT !.elapsed = e]
                /\ UNCHANGED tweens
    /\ last' = NoCall
    /\ UNCHANGED <<building, ceilingVisible, scene, starts, seen>>

-----------------------------------------------------------------------------
(* Building.toggleCeiling *)

\* Skips without the test of ceilingTween
Skips_NoTween ==
    \/ ceilingHitbox = Undef
    \/ dead
    \/ scene.activePlayer = Undef

\* Skips with the test of the ceiling hitbox made only after the overlap
\* test has failed
Skips_HitboxLate ==
    \/ ceilingTween # Undef
    \/ dead
    \/ scene.activePlayer = Undef
    \/ (ceilingHitbox = Undef /\ ~scene.activePlayer.collides)

\* the call returns at line 56 or 58 without evaluating
Skips ==
    \/ ceilingHitbox = Undef
    \/ ceilingTween # Undef
    \/ dead
    \/ scene.activePlayer = Undef

\* line 180 never returning: every evaluation starts a transition
SameAsStored_Never(visible) == FALSE

\* line 180 returning only for a roof that stays shown
SameAsStored_OnlyShown(visible) == ceilingVisible = visible /\ ~visible

\* line 180 returning also whenever the roof is stored as hidden
SameAsStored_OnceHidden(visible) == ceilingVisible = visible \/ ceilingVisible

\* line 180: the resolved value is the stored one, nothing to do
SameAsStored(visible) == ceilingVisible = visible

\* line 186: to: { alpha: visible ? 0 : 1 }
TweenTarget(visible) == IF visible THEN AlphaHidden ELSE AlphaShown

\* line 187 passing the hide duration in both directions
TweenDuration_Same(visible, duration) == duration

\* line 187: duration: visible ? duration : 300
TweenDuration(visible, duration) ==
    IF visible THEN duration ELSE ShowDuration

Observed(r, started) ==
    [call |-> TRUE, ran |-> TRUE, visible |-> r.visible,
     duration |-> r.duration, casts |-> r.casts, started |-> started,
     update |-> "none"]

\* what an evaluation adds to seen: the resolved boolean, and the value of
\* ceilingVisible and the layer of the building it was resolved under
Evaluation(r) ==
    [visible |-> r.visible, stored |-> ceilingVisible, layer |-> layer]

\* toggleCeiling taking the candidates out of the object index when it
\* evaluates
ToggleCeiling_Draining ==
    /\ phase = "live"
    /\ IF Skips
       THEN /\ last' = [NoCall EXCEPT !.call = TRUE]
            /\ UNCHANGED <<ceilingVisible, ceilingTween, starts, seen,
                           tweens>>
       ELSE \E r \in {Resolve(ceilingHitbox, scene)} :
              /\ seen' = seen \cup {Evaluation(r)}
              /\ IF SameAsStored(r.visible)
                 THEN /\ last' = Observed(r, FALSE)
                      /\ UNCHANGED <<ceilingVisible, ceilingTween, starts,
                                     tweens>>
                 ELSE /\ ceilingVisible' = r.visible
                      /\ ceilingTween' =
                             addTween(TweenTarget(r.visible),
                                      TweenDuration(r.visible, r.duration),
                                      alpha)
                      /\ tweens' = tweens + 1
                      /\ last' = Observed(r, TRUE)
                      /\ starts' = IF starts < MaxStarts THEN starts + 1
                                                         ELSE starts
    /\ scene' = IF Skips THEN scene ELSE [scene EXCEPT !.objects = <<>>]
    /\ UNCHANGED <<building, alpha>>

ToggleCeiling ==
    /\ phase = "live"
    /\ IF Skips
       THEN /\ last' = [NoCall EXCEPT !.call = TRUE]
            /\ UNCHANGED <<ceilingVisible, ceilingTween, starts, seen,
                           tweens>>
       ELSE \E r \in {Resolve(ceilingHitbox, scene)} :
              /\ seen' = seen \cup {Evaluation(r)}
              /\ IF SameAsStored(r.visible)
                 THEN /\ last' = Observed(r, FALSE)
                      /\ UNCHANGED <<ceilingVisible, ceilingTween, starts,
                                     tweens>>
                 ELSE /\ ceilingVisible' = r.visible
                      /\ ceilingTween' =
                             addTween(TweenTarget(r.visible),
                                      TweenDuration(r.visible, r.duration),
                                      alpha)
                      /\ tweens' = tweens + 1
                      /\ last' = Observed(r, TRUE)
                      /\ starts' = IF starts < MaxStarts THEN starts + 1
                                                         ELSE starts
    /\ UNCHANGED <<building, alpha, scene>>

-----------------------------------------------------------------------------
(* Building.updateFromData, the constructor and destroy *)

Layers == {0, 1}

BuildingDefinition(id, h, scope, ceiling) ==
    [kind |-> "definition", idString |-> id, hitbox |-> h,
     scopeHitbox |-> scope, ceilingHitbox |-> ceiling]

Definitions ==
    { BuildingDefinition("hut", Rectangle, Undef, Circle(5)),
      BuildingDefinition("house", Rectangle, Rectangle,
                         Group(<<Rectangle, Circle(5)>>)),
      BuildingDefinition("shed", Undef, Undef, Group(<<Polygon, Rectangle>>)),
      BuildingDefinition("bridge", Undef, Undef, Undef) }

FullData(def, pos, orient) ==
    [kind |-> "full", definition |-> def, position |-> pos,
     orientation |-> orient]

\* ObjectsNetData[ObjectCategory.Building]
NetData(full, isDead, l) == [full |-> full, dead |-> isDead, layer |-> l]

\* the block under if (data.full) with the operands of ?? at line 248
\* exchanged: the ceiling hitbox before the scope hitbox
ApplyFull_CeilingFirst(data) ==
    IF data.full # Undef
    THEN /\ definition' = data.full.definition
         /\ position' = data.full.position
         /\ layer' = data.layer
         /\ orientation' = data.full.orientation
         /\ hitbox' = Transform(data.full.definition.hitbox,
                                data.full.position, data.full.orientation)
         /\ damageable' = (data.full.definition.hitbox # Undef)
         /\ ceilingHitbox' =
                Transform(IF data.full.definition.ceilingHitbox # Undef
                          THEN data.full.definition.ceilingHitbox
                          ELSE data.full.definition.scopeHitbox,
                          data.full.position, data.full.orientation)
    ELSE UNCHANGED <<definition, position, layer, orientation, hitbox,
                     damageable, ceilingHitbox>>

\* the block under if (data.full), lines 196-249
ApplyFull(data) ==
    IF data.full # Undef
    THEN /\ definition' = data.full.definition
         /\ position' = data.full.position
         /\ layer' = data.layer
         /\ orientation' = data.full.orientation
         /\ hitbox' = Transform(data.full.definition.hitbox,
                                data.full.position, data.full.orientation)
         /\ damageable' = (data.full.definition.hitbox # Undef)
         /\ ceilingHitbox' =
                Transform(IF data.full.definition.scopeHitbox # Undef
                          THEN data.full.definition.scopeHitbox
                          ELSE data.full.definition.ceilingHitbox,
                          data.full.position, data.full.orientation)
    ELSE UNCHANGED <<definition, position, layer, orientation, hitbox,
                     damageable, ceilingHitbox>>

\* the dead block without line 315: the tween is left running
ApplyDead_NoKill(data) ==
    /\ IF data.dead
       THEN /\ alpha' = AlphaShown
            /\ UNCHANGED <<ceilingTween, tweens>>
       ELSE UNCHANGED <<ceilingTween, alpha, tweens>>
    /\ dead' = data.dead

\* the dead block without line 317: the tween is killed and alpha is left
\* where the tween had brought it
ApplyDead_KeepAlpha(data) ==
    /\ IF data.dead
       THEN /\ ceilingTween' = kill(ceilingTween)
            /\ tweens' = IF Registered(ceilingTween) THEN tweens - 1
                                                       ELSE tweens
            /\ UNCHANGED alpha
       ELSE UNCHANGED <<ceilingTween, alpha, tweens>>
    /\ dead' = data.dead

\* lines 286-321: the if (data.dead) block and the assignment of dead
ApplyDead(data) ==
    /\ IF data.dead
       THEN /\ ceilingTween' = kill(ceilingTween)
            /\ tweens' = IF Registered(ceilingTween) THEN tweens - 1
                                                       ELSE tweens
            /\ alpha' = AlphaShown
       ELSE UNCHANGED <<ceilingTween, alpha, tweens>>
    /\ dead' = data.dead

\* updateFromData(data, isNew) on a building whose definition is defined
\* after the full block; reading definition.sounds of an undefined
\* definition (line 257) throws
Throws(data) == data.full = Undef /\ definition = Undef

UpdateFromData(data) ==
    /\ phase = "live"
    /\ ~Throws(data)
    /\ ApplyFull(data)
    /\ ApplyDead(data)
    /\ last' = Updated(data)
    /\ starts' = IF data.full # Undef THEN 0 ELSE starts
    /\ seen' = IF ceilingHitbox' # ceilingHitbox THEN {} ELSE seen
    /\ UNCHANGED <<phase, ceilingVisible, scene>>

\* new Building(game, id, data): the field initialisers, then
\* updateFromData(data, true); a throw leaves no building
Construct(data) ==
    /\ phase = "constructing"
    /\ IF Throws(data)
       THEN /\ phase' = "faulted"
            /\ layer' = data.layer
            /\ UNCHANGED <<definition, position, orientation, hitbox,
                           damageable, dead, ceilingHitbox, ceilingTween,
                           alpha, tweens>>
       ELSE /\ phase' = "live"
            /\ ApplyFull(data)
            /\ ApplyDead(data)
    /\ last' = Updated(data)
    /\ UNCHANGED <<ceilingVisible, scene, starts, seen>>

\* destroy() without line 430: the tween is left running
Destroy_NoKill ==
    /\ phase = "live"
    /\ phase' = "destroyed"
    /\ last' = NoCall
    /\ UNCHANGED <<definition, position, orientation, layer, hitbox,
                   damageable, dead, ceilingHitbox, ceilingTween,
                   ceilingVisible, alpha, scene, starts, seen, tweens>>

\* destroy(): super.destroy(), then the ceiling tween is killed
Destroy ==
    /\ phase = "live"
    /\ phase' = "destroyed"
    /\ ceilingTween' = kill(ceilingTween)
    /\ tweens' = IF Registered(ceilingTween) THEN tweens - 1 ELSE tweens
    /\ last' = NoCall
    /\ UNCHANGED <<definition, position, orientation, layer, hitbox,
                   damageable, dead, ceilingHitbox, ceilingVisible, alpha,
                   scene, starts, seen>>

-----------------------------------------------------------------------------
(* The scene: game.activePlayer, game.objects and the geometry between the *)
(* viewer, the ceiling hitbox and the occluders.                           *)

Player(l, c) == [kind |-> "player", layer |-> l, collides |-> c]

Players == { Player(l, c) : l \in Layers, c \in BOOLEAN }

\* what the geometry says about one member shape: the distance of the
\* viewer to it and the zones of its sweep whose rays reach the hitbox
Geo(d, reach) == [dist |-> d, reach |-> reach]

NearDist(shape) == shape.radius + visionSize - 1
FarDist(shape) == shape.radius + visionSize + 1   \* 20 for Circle(5)

\* the geometries a member shape is looked at in: beyond the probe circle,
\* or within it with the rays of some zones of its sweep reaching the
\* hitbox
GeoChoices(shape) ==
    CASE shape.kind = "circle" ->
            { Geo(NearDist(shape), Zones), Geo(NearDist(shape), {"first"}),
              Geo(FarDist(shape), {}) }
      [] shape.kind = "rect" ->
            { Geo(NearDist(shape), {"last"}), Geo(NearDist(shape), {}),
              Geo(FarDist(shape), {}) }
      [] OTHER -> { Geo(NearDist(shape), {}) }

\* one choice of geometry per member of the hitbox, none without a hitbox
RECURSIVE GeoSeqs(_)
GeoSeqs(members) ==
    IF Len(members) = 0 THEN { <<>> }
    ELSE { <<g>> \o rest : g \in GeoChoices(Head(members)),
                           rest \in GeoSeqs(Tail(members)) }

GeosFor(h) == IF h = Undef THEN { <<>> } ELSE GeoSeqs(MemberList(h))

OccluderHitbox(zones) == [kind |-> "hitbox", crosses |-> zones]

Occluder(cat, dmg, isDead, hasRole, isWindow, h) ==
    [category |-> cat, damageable |-> dmg, dead |-> isDead,
     definition |-> [hasRole |-> hasRole, isWindow |-> isWindow],
     hitbox |-> h, layer |-> GroundLayer]

Wall == OccluderHitbox(Zones)
Post == OccluderHitbox({"first"})

\* a door, a pane with and one without a role, a fence that takes no
\* damage, a building with a narrow hitbox and the ruin of a building
OccluderChoices ==
    { Occluder("obstacle", TRUE, FALSE, TRUE, FALSE, Wall),
      Occluder("obstacle", TRUE, FALSE, TRUE, TRUE, Wall),
      Occluder("obstacle", TRUE, FALSE, FALSE, TRUE, Wall),
      Occluder("obstacle", FALSE, FALSE, FALSE, FALSE, Wall),
      Occluder("building", TRUE, FALSE, FALSE, FALSE, Post),
      Occluder("building", TRUE, TRUE, FALSE, FALSE, Wall) }

RECURSIVE SeqsUpTo(_, _)
SeqsUpTo(S, n) ==
    IF n = 0 THEN { <<>> }
    ELSE SeqsUpTo(S, n - 1)
           \cup { Append(q, x) : q \in { p \in SeqsUpTo(S, n - 1) :
                                          Len(p) = n - 1 }, x \in S }

Scene(player, geo, objects) ==
    [activePlayer |-> player, geo |-> geo, objects |-> objects]

\* the scenes a building with ceiling hitbox h can be looked at in
Scenes(h) ==
    { Scene(p, g, o) : p \in Players, g \in GeosFor(h),
                       o \in SeqsUpTo(OccluderChoices, MaxOccluders) }

-----------------------------------------------------------------------------
(* The specification of the controller: one building from construction to  *)
(* destruction, its ceiling re-evaluated as the viewer and the objects     *)
(* around it change and as the game's tweens advance.                      *)

\* the scenes the controller is exercised with: the viewer absent or on
\* any layer, overlapping or not, every member within the probe circle or
\* every member beyond it, and walls around
CtlOccluders == { Occluder("obstacle", TRUE, FALSE, FALSE, FALSE, Wall) }

CtlGeos(h) ==
    IF h = Undef THEN { <<>> }
    ELSE { [m \in 1..Len(MemberList(h)) |->
               Geo(NearDist(MemberList(h)[m]),
                   IF MemberList(h)[m].kind = "polygon" THEN {} ELSE Zones)],
           [m \in 1..Len(MemberList(h)) |->
               Geo(FarDist(MemberList(h)[m]), {})] }

CtlScenes(h) ==
    { Scene(p, g, o) : p \in Players \cup {Undef}, g \in CtlGeos(h),
                       o \in SeqsUpTo(CtlOccluders, MaxOccluders) }

\* where a full update places the building
Placements == { <<0, 0>>, <<1, 1>> }

Init ==
    /\ phase = "constructing"
    /\ definition = Undef
    /\ position = 0
    /\ orientation = 0
    /\ layer = 0
    /\ hitbox = Undef
    /\ damageable = FALSE
    /\ dead = FALSE
    /\ ceilingHitbox = Undef
    /\ ceilingTween = Undef
    /\ ceilingVisible = FALSE
    /\ alpha = AlphaShown
    /\ scene = Scene(Undef, <<>>, <<>>)
    /\ last = NoCall
    /\ starts = 0
    /\ seen = {}
    /\ tweens = 0

\* the viewer moves, appears or leaves and the objects around change
SetScene(sc) ==
    /\ phase = "live"
    /\ sc # scene
    /\ scene' = sc
    /\ last' = NoCall
    /\ starts' = 0
    /\ seen' = {}
    /\ UNCHANGED <<building, ceilingTween, ceilingVisible, alpha, tweens>>

Next ==
    \/ \E def \in Definitions \cup {Undef}, l \in Layers, d \in BOOLEAN :
          Construct(NetData(IF def = Undef THEN Undef
                            ELSE FullData(def, 0, 0), d, l))
    \/ \E at \in Placements, l \in Layers, d \in BOOLEAN :
          UpdateFromData(NetData(FullData(definition, at[1], at[2]), d, l))
    \/ \E d \in BOOLEAN : UpdateFromData(NetData(Undef, d, layer))
    \/ \E sc \in CtlScenes(ceilingHitbox) : SetScene(sc)
    \/ ToggleCeiling
    \/ \E dt \in TickSteps : TweenUpdate(dt)
    \/ Destroy

Spec == Init /\ [][Next]_vars

\* The controller under the game loop's scheduling: every frame calls
\* toggleCeiling on the buildings in view and updates the game's tweens, so
\* neither is put off forever.
SpecLive ==
    /\ Init
    /\ [][Next]_vars
    /\ WF_vars(ToggleCeiling)
    /\ WF_vars(\E dt \in TickSteps : TweenUpdate(dt))

-----------------------------------------------------------------------------
(* The specification of the resolver: a live building with any ceiling     *)
(* hitbox of up to MaxMembers shapes, looked at in any scene, evaluated by *)
(* toggleCeiling.                                                          *)

ShapeChoices == { Circle(5), Rectangle, Polygon }

HitboxChoices ==
    ShapeChoices
      \cup { Group(q) : q \in { p \in SeqsUpTo(ShapeChoices, MaxMembers) :
                                Len(p) >= 2 } }

InitResolve ==
    /\ phase = "live"
    /\ \E h \in HitboxChoices :
          /\ definition = BuildingDefinition("input", Undef, Undef, h)
          /\ ceilingHitbox = Transform(h, 0, 0)
          /\ scene \in Scenes(h)
    /\ position = 0
    /\ orientation = 0
    /\ layer = 0
    /\ hitbox = Undef
    /\ damageable = FALSE
    /\ dead = FALSE
    /\ ceilingTween = Undef
    /\ ceilingVisible = FALSE
    /\ alpha = AlphaShown
    /\ last = NoCall
    /\ starts = 0
    /\ seen = {}
    /\ tweens = 0

NextResolve == ToggleCeiling

SpecResolve == InitResolve /\ [][NextResolve]_vars

-----------------------------------------------------------------------------
(* The specification of the arc cast: a live building with any ceiling     *)
(* hitbox of up to MaxMembers shapes and a viewer outside it, so that       *)
(* every evaluation goes through the loop over the members.                *)

\* a door, a building with a narrow hitbox and a pane with a role
ScanOccluders ==
    { Occluder("obstacle", TRUE, FALSE, TRUE, FALSE, Wall),
      Occluder("building", TRUE, FALSE, FALSE, FALSE, Post),
      Occluder("obstacle", TRUE, FALSE, TRUE, TRUE, Wall) }

ScanScenes(h) ==
    { Scene(Player(l, FALSE), g, o) :
          l \in Layers, g \in GeosFor(h),
          o \in SeqsUpTo(ScanOccluders, MaxOccluders) }

InitScan ==
    /\ phase = "live"
    /\ \E h \in HitboxChoices :
          /\ definition = BuildingDefinition("input", Undef, Undef, h)
          /\ ceilingHitbox = Transform(h, 0, 0)
          /\ scene \in ScanScenes(h)
    /\ position = 0
    /\ orientation = 0
    /\ layer = 0
    /\ hitbox = Undef
    /\ damageable = FALSE
    /\ dead = FALSE
    /\ ceilingTween = Undef
    /\ ceilingVisible = FALSE
    /\ alpha = AlphaShown
    /\ last = NoCall
    /\ starts = 0
    /\ seen = {}
    /\ tweens = 0

NextScan == ToggleCeiling

SpecScan == InitScan /\ [][NextScan]_vars

-----------------------------------------------------------------------------
(* Properties *)

\* the offsets of the rays of one sweep
SweepOffsets ==
    { SweepStep * k - HalfPi : k \in 0..((2 * HalfPi - 1) \div SweepStep) }

\* the call just made evaluated the scene (it passed lines 56 and 58)
Evaluated == last.call /\ last.ran

Overlaps == scene.activePlayer # Undef /\ scene.activePlayer.collides

\* a candidate that passes the blocking predicate on some ray
SolidWallPresent ==
    \E n \in 1..Len(scene.objects) :
        \E i \in SweepOffsets : Blocks(scene.objects[n], i)

\* C1: whenever toggleCeiling evaluates and the viewer's hitbox collides
\* with the ceiling hitbox, the resolved visibility is true and no ray was
\* cast, whatever the occluders are.
C1_FastPath ==
    (Evaluated /\ Overlaps) => (last.visible /\ last.casts = 0 /\ ceilingVisible)

\* C1 witness: an evaluation with the viewer overlapping the hitbox while
\* a blocking occluder crosses every ray.
C1_Witness ==
    /\ Evaluated
    /\ Overlaps
    /\ SolidWallPresent
    /\ last.visible

\* the occluder is window-flagged, dead or not damageable
Excluded(o) == o.definition.isWindow \/ o.dead \/ ~o.damageable

\* C2: in an evaluation, an occluder blocks a ray only if it is damageable,
\* not dead, not window-flagged and its hitbox intersects the ray; a
\* window-flagged, dead or non-damageable occluder never blocks.
C2_OnlyQualifyingOccludersBlock ==
    (Evaluated /\ ~Overlaps) =>
        \A m \in 1..Len(scene.geo) : \A i \in SweepOffsets :
            (/\ HasDirection(MemberList(ceilingHitbox)[m], scene.geo[m])
             /\ RayEnd(scene.geo[m], i)) =>
                \A n \in 1..Len(scene.objects) :
                    Blocks(scene.objects[n], i) =>
                        /\ ~Excluded(scene.objects[n])
                        /\ OccluderIntersects(scene.objects[n], i)

\* some member of the hitbox yields a direction and one of its rays
\* reaches the hitbox: there is a line of sight for occluders to lie on
SightLine ==
    \E m \in 1..Len(scene.geo) :
        /\ HasDirection(MemberList(ceilingHitbox)[m], scene.geo[m])
        /\ scene.geo[m].reach # {}

\* the scenario of a viewer 20 units from a lone circular member of radius
\* 5 with a single window-flagged occluder
ScenarioC ==
    /\ ceilingHitbox.kind = "circle"
    /\ ceilingHitbox.radius = 5
    /\ scene.geo[1].dist = 20
    /\ ~scene.activePlayer.collides
    /\ Len(scene.objects) = 1
    /\ scene.objects[1].definition.isWindow

\* C3: if every occluder between the viewer and the structure is
\* window-flagged, dead or non-damageable, the resolved visibility is true;
\* in particular in the scenario of the viewer 20 units from a lone circle
\* of radius 5 behind a window-flagged occluder.
C3_ExcludedOccludersLetSee ==
    /\ (Evaluated /\ SightLine
          /\ \A n \in 1..Len(scene.objects) : Excluded(scene.objects[n]))
          => last.visible
    /\ (Evaluated /\ ScenarioC) => last.visible

\* the controller's state: the stored boolean, the transition and alpha
controller == <<ceilingVisible, ceilingTween, alpha>>

\* a transition is in flight: a tween is set and the game still updates it
InFlight == ceilingTween # Undef /\ ~ceilingTween.killed

\* C4: a transition is started only when the newly resolved boolean
\* differs from the stored ceilingVisible, a call that resolves the stored
\* boolean leaves ceilingVisible, the tween and alpha unchanged, and calls
\* on an unchanged scenario start at most one transition.
C4_Idempotent ==
    [][ /\ (last'.call /\ last'.started) => last'.visible # ceilingVisible
        /\ (last'.call /\ last'.ran /\ last'.visible = ceilingVisible)
              => UNCHANGED controller
        /\ starts' <= 1 ]_vars

\* C4 witness: in a scenario in which one transition was started and has
\* completed, a further call evaluated the same boolean and started nothing.
C4_Witness ==
    /\ starts = 1
    /\ Evaluated
    /\ ~last.started
    /\ last.visible
    /\ ceilingTween = Undef

\* C5: a call made while a tween is set or while the structure is dead
\* evaluates nothing and leaves ceilingVisible, the tween and alpha as they
\* are, whatever the scene is.
C5_ReentrantNoOp ==
    [][ (last'.call /\ (ceilingTween # Undef \/ dead))
           => (~last'.ran /\ UNCHANGED controller) ]_vars

\* C5 witness: a call skipped during a transition although the scene
\* resolves to the opposite of the stored boolean.
C5_Witness ==
    /\ last.call
    /\ ~last.ran
    /\ InFlight
    /\ ~dead
    /\ scene.activePlayer # Undef
    /\ Resolve(ceilingHitbox, scene).visible # ceilingVisible

\* the roof is fully hidden and no transition is in flight
Transparent == ~dead /\ ceilingTween = Undef /\ alpha = AlphaHidden

\* C6 as stated: with the structure Transparent, an evaluation that
\* resolves false performs no new transition and leaves alpha unchanged.
C6_TransparentResolvedFalse ==
    [][ (Transparent /\ last'.call /\ last'.ran /\ ~last'.visible)
           => UNCHANGED controller ]_vars

\* C6 amended: with the structure Transparent, an evaluation that again
\* resolves true (roof hidden) performs no new transition: the state stays
\* Transparent and alpha is unchanged; one that resolves false starts the
\* transition that shows the roof.
C6_TransparentResolvedTrue ==
    [][ /\ (Transparent /\ last'.call /\ last'.ran /\ last'.visible)
           => (UNCHANGED controller /\ ~last'.started)
        /\ (Transparent /\ last'.call /\ last'.ran /\ ~last'.visible)
           => (last'.started /\ ceilingTween'.to = AlphaShown
                 /\ alpha' = alpha) ]_vars

\* C6 witness: a Transparent structure just evaluated to true again.
C6_Witness ==
    /\ Transparent
    /\ ceilingVisible
    /\ Evaluated
    /\ last.visible
    /\ ~last.started

\* C7: a transition to hidden started by an evaluation in which the viewer
\* overlaps the hitbox has duration 0 when the viewer's layer is not a
\* ground layer and 150 when it is.
C7_FastPathDuration ==
    (last.call /\ last.started /\ Overlaps) =>
        /\ ceilingVisible
        /\ ceilingTween.to = AlphaHidden
        /\ ceilingTween.duration =
              IF isGroundLayer(scene.activePlayer.layer) THEN 150 ELSE 0

\* C7 witness: a hide started on the fast path from a non-ground layer.
C7_Witness ==
    /\ last.call
    /\ last.started
    /\ Overlaps
    /\ ~isGroundLayer(scene.activePlayer.layer)
    /\ ceilingTween.duration = 0

\* C8: a transition started toward roof-shown targets alpha 1 with
\* duration 300 whatever the viewer's layer and the path; one started
\* toward roof-hidden targets alpha 0 with duration 0 or 150, and 150 when
\* the arc cast produced it.
C8_DirectionDuration ==
    (last.call /\ last.started) =>
        IF last.visible
        THEN /\ ceilingTween.to = AlphaHidden
             /\ ceilingTween.duration \in {0, 150}
             /\ ~Overlaps => ceilingTween.duration = 150
        ELSE /\ ceilingTween.to = AlphaShown
             /\ ceilingTween.duration = 300

\* C8 witness: a show transition started for a viewer on a non-ground
\* layer after a hide took place.
C8_Witness ==
    /\ last.call
    /\ last.started
    /\ ~last.visible
    /\ ~isGroundLayer(scene.activePlayer.layer)
    /\ alpha = AlphaHidden

\* x lies between a and b, ends included
Between(x, a, b) == (a <= x /\ x <= b) \/ (b <= x /\ x <= a)

\* the step cancels the tween
Cancels == ceilingTween' # Undef /\ ceilingTween'.killed

\* C9: while a transition is in flight and not cancelled, every step moves
\* alpha monotonically toward the target (0 or 1), alpha stays between the
\* start value and the target, and alpha is the target when the transition
\* completes.
C9_MonotonicTransition ==
    [][ (InFlight /\ ~Cancels) =>
            /\ ceilingTween.to \in {AlphaHidden, AlphaShown}
            /\ Between(alpha', alpha, ceilingTween.to)
            /\ Between(alpha', ceilingTween.from, ceilingTween.to)
            /\ alpha' \in AlphaHidden..AlphaShown
            /\ ceilingTween' = Undef => alpha' = ceilingTween.to ]_vars

\* C9 witness: a show transition part of its way, alpha strictly between
\* its start and its target.
C9_Witness ==
    /\ InFlight
    /\ ceilingTween.to = AlphaShown
    /\ ceilingTween.elapsed > 0
    /\ alpha > ceilingTween.from
    /\ alpha < ceilingTween.to

\* C10: once the structure is destroyed its tween is cancelled: it
\* completes no more (ceilingTween is not cleared by onComplete) and alpha
\* is advanced no further.
C10_DestroyCancels ==
    [][ /\ phase' = "destroyed" => ~InFlight'
        /\ (phase = "destroyed" /\ ceilingTween # Undef) =>
              (alpha' = alpha /\ ceilingTween' = ceilingTween) ]_vars

\* C10 witness: a structure destroyed in the middle of a transition.
C10_Witness ==
    /\ phase = "destroyed"
    /\ ceilingTween # Undef
    /\ ceilingTween.elapsed > 0
    /\ alpha # ceilingTween.to

\* C11: the evaluations made under one viewer, ceiling hitbox and occluder
\* list all resolve the same boolean, whatever ceilingVisible and alpha were
\* at each and however many evaluations came before.
C11_Deterministic ==
    \A a \in seen : \A b \in seen : a.visible = b.visible

\* C11 witness: the arc cast evaluated the same scenario under both values
\* of ceilingVisible, the latest time with the roof forced back to alpha 1
\* by a dead update in between.
C11_Witness ==
    /\ \E a \in seen : \E b \in seen : a.stored # b.stored
    /\ Evaluated
    /\ ~Overlaps
    /\ last.visible
    /\ alpha = AlphaShown

\* C12: a call on a structure whose ceiling hitbox is not populated, or
\* made when there is no active viewer, evaluates no geometry and leaves
\* ceilingVisible, the tween and alpha as they are.
C12_NotReadySkipped ==
    [][ (last'.call /\ (ceilingHitbox = Undef \/ scene.activePlayer = Undef))
           => (/\ ~last'.ran
               /\ last'.casts = 0
               /\ UNCHANGED controller
               /\ UNCHANGED seen) ]_vars

\* C12 witness: a call skipped for the lack of a ceiling hitbox alone, a
\* viewer being present, no transition in flight and the structure alive.
C12_Witness ==
    /\ last.call
    /\ ~last.ran
    /\ ceilingHitbox = Undef
    /\ scene.activePlayer # Undef
    /\ ceilingTween = Undef
    /\ ~dead

\* C13: a partial update that arrives before any full update finishes
\* without a fault (updateFromData skips it) and leaves dead, the ceiling
\* hitbox, alpha and the transition unchanged.
C13_PartialBeforeFullSkipped ==
    [][ (phase = "constructing" /\ definition' = Undef)
           => (/\ phase' = "live"
               /\ UNCHANGED <<dead, ceilingHitbox, hitbox, controller>>) ]_vars

\* the orders a category of n objects can be iterated in
Orders(n) ==
    { p \in [1..n -> 1..n] : \A a, b \in 1..n : p[a] = p[b] => a = b }

\* the objects iterated in the order p
Reorder(objects, p) == [n \in 1..Len(objects) |-> objects[p[n]]]

\* C14: the boolean an evaluation resolves is the one it resolves for
\* every other iteration order of the objects of the obstacle and building
\* categories, viewer, hitbox and occluders being the same.
C14_OrderIndependent ==
    (Evaluated /\ ~Overlaps) =>
        \A p \in Orders(Len(scene.objects)) :
            Resolve(ceilingHitbox,
                    [scene EXCEPT !.objects = Reorder(scene.objects, p)]).visible
                = last.visible

\* C14 witness: an evaluation blocked by an occluder that is not the first
\* of the objects, the first one blocking no ray.
C14_Witness ==
    /\ Evaluated
    /\ ~Overlaps
    /\ SightLine
    /\ ~last.visible
    /\ Len(scene.objects) = 2
    /\ \A i \in SweepOffsets : ~Blocks(scene.objects[1], i)
    /\ \E i \in SweepOffsets : Blocks(scene.objects[2], i)

\* C15: a toggleCeiling call leaves the object index and its occluders,
\* the viewer, and the structure's hitbox, ceiling hitbox, layer, dead flag
\* and definition as they are; it writes at most ceilingVisible and the
\* transition.
C15_ReadOnly ==
    [][ last'.call => UNCHANGED <<scene, building, alpha>> ]_vars

\* C15 witness: an evaluation that cast rays against occluders of the
\* index and started a transition.
C15_Witness ==
    /\ Evaluated
    /\ last.started
    /\ last.casts > 0
    /\ Len(scene.objects) > 0

\* some sampled ray of the sweep of a member both reaches the ceiling
\* hitbox and is intersected by no candidate that passes the blocking
\* predicate
ClearRay(geo, candidates) ==
    \E i \in SweepOffsets : RayEnd(geo, i) /\ ~SomeBlocks(candidates, i)

\* C16: a member with an overlap direction is visible if and only if some
\* sampled ray of its sweep both reaches the full ceiling hitbox and is
\* blocked by no qualifying occluder (one that passes the predicate of the
\* arc cast); samples that miss the hitbox contribute nothing wherever they
\* fall in the sweep, and a lone member's result is the call's result.
C16_MemberArcResult ==
    Evaluated =>
        /\ \A m \in 1..Len(scene.geo) :
              HasDirection(MemberList(ceilingHitbox)[m], scene.geo[m]) =>
                  (MemberResult(MemberList(ceilingHitbox)[m], scene.geo[m],
                                Candidates(scene.objects)).visible
                     <=> ClearRay(scene.geo[m], Candidates(scene.objects)))
        /\ (Len(scene.geo) = 1
              /\ HasDirection(MemberList(ceilingHitbox)[1], scene.geo[1])) =>
                  (last.visible
                     <=> ClearRay(scene.geo[1], Candidates(scene.objects)))

\* C16 witness: a lone member whose sweep reaches the hitbox with its
\* first sample only, that sample blocked and every later one, the last
\* included, missing: the member is not visible.
C16_Witness ==
    /\ Evaluated
    /\ Len(scene.geo) = 1
    /\ HasDirection(MemberList(ceilingHitbox)[1], scene.geo[1])
    /\ scene.geo[1].reach = {"first"}
    /\ SomeBlocks(Candidates(scene.objects), -HalfPi)
    /\ ~last.visible
    /\ last.casts = 32

\* the result of member m of the ceiling hitbox in the present scene
Member(m) ==
    MemberResult(MemberList(ceilingHitbox)[m], scene.geo[m],
                 Candidates(scene.objects))

\* the members that are visible on their own
VisibleMembers == { m \in 1..Len(scene.geo) : Member(m).visible }

\* the members a scan in hitbox order looks at: all of them up to and
\* including the first visible one
Scanned ==
    IF VisibleMembers = {} THEN 1..Len(scene.geo)
    ELSE 1..(CHOOSE m \in VisibleMembers :
                 \A n \in VisibleMembers : m <= n)

RECURSIVE CastsOf(_)
CastsOf(S) ==
    IF S = {} THEN 0
    ELSE LET m == CHOOSE x \in S : TRUE
         IN  Member(m).casts + CastsOf(S \ {m})

\* C17: when the viewer does not overlap the hitbox, the resolved boolean
\* is the disjunction of the members' results (a lone shape being its own
\* only member), false when no member is visible; the scan stops at the
\* first visible member, so the rays cast are those of the members up to
\* it and no later member changes the result.
C17_AcrossMembers ==
    (Evaluated /\ ~Overlaps) =>
        /\ Len(scene.geo) = Len(MemberList(ceilingHitbox))
        /\ last.visible = (VisibleMembers # {})
        /\ last.visible =
              (\E m \in 1..Len(scene.geo) :
                   /\ HasDirection(MemberList(ceilingHitbox)[m], scene.geo[m])
                   /\ ClearRay(scene.geo[m], Candidates(scene.objects)))
        /\ last.casts = CastsOf(Scanned)

\* C17 witness: a visible member followed by one that has a direction and
\* is not visible: the result stays true and the later member casts no ray.
C17_Witness ==
    /\ Evaluated
    /\ Len(scene.geo) >= 2
    /\ Member(1).visible
    /\ HasDirection(MemberList(ceilingHitbox)[2], scene.geo[2])
    /\ ~Member(2).visible
    /\ last.visible
    /\ last.casts = Member(1).casts

\* member m is a polygon, or a circle or rectangle that the probe circle
\* of radius 14 around the viewer does not intersect
OutOfProbe(m) ==
    LET shape == MemberList(ceilingHitbox)[m]
    IN  \/ shape.kind = "polygon"
        \/ shape.kind = "circle"
              /\ scene.geo[m].dist >= shape.radius + visionSize
        \/ shape.kind = "rect" /\ scene.geo[m].dist >= visionSize

\* C18: a polygon member, and a circle or rectangle member the 14-unit
\* probe circle does not intersect, yields no direction, casts no ray and
\* is not visible; when the viewer does not overlap the hitbox and every
\* member is such, the result is false and no ray is cast, whatever the
\* occluders are.
C18_NoDirectionNoVisibility ==
    (Evaluated /\ ~Overlaps) =>
        /\ \A m \in 1..Len(scene.geo) :
              OutOfProbe(m) =>
                  /\ ~HasDirection(MemberList(ceilingHitbox)[m], scene.geo[m])
                  /\ ~Member(m).visible
                  /\ Member(m).casts = 0
        /\ (\A m \in 1..Len(scene.geo) : OutOfProbe(m)) =>
              (~last.visible /\ last.casts = 0)

\* C18 witness: a lone circle of radius 5 with the viewer 20 units away
\* and no occluder at all: no direction, no ray, not visible.
C18_Witness ==
    /\ Evaluated
    /\ ~Overlaps
    /\ ceilingHitbox.kind = "circle"
    /\ scene.geo[1].dist = 20
    /\ scene.objects = <<>>
    /\ ~last.visible
    /\ last.casts = 0

\* C19: the samples of a sweep start at angle - pi/2 and go in steps of
\* 0.1 strictly below angle + pi/2, 32 of them; a member with a direction
\* casts at least one and at most 32 rays (all 32 when it is not visible),
\* and a call casts at most 32 rays per member of the hitbox.
C19_BoundedSweep ==
    /\ Cardinality(SweepOffsets) = 32
    /\ \A i \in SweepOffsets :
          -HalfPi <= i /\ i < HalfPi /\ (i + HalfPi) % SweepStep = 0
    /\ Evaluated =>
          /\ \A m \in 1..Len(scene.geo) :
                HasDirection(MemberList(ceilingHitbox)[m], scene.geo[m]) =>
                    \A r \in {Member(m)} :
                        /\ r.casts >= 1
                        /\ r.casts <= 32
                        /\ ~r.visible => r.casts = 32
          /\ last.casts <= 32 * Len(MemberList(ceilingHitbox))

\* C19 witness: every member of a hitbox of several members swept in full
\* without a clear ray: 32 rays for each.
C19_Witness ==
    /\ Evaluated
    /\ Len(scene.geo) >= 2
    /\ \A m \in 1..Len(scene.geo) :
          HasDirection(MemberList(ceilingHitbox)[m], scene.geo[m])
    /\ ~last.visible
    /\ last.casts = 32 * Len(scene.geo)

\* C20: at most one transition of the structure is in flight, and it is
\* the one ceilingTween refers to; a transition is started only by a
\* toggleCeiling call that finds ceilingTween unset; a call made during a
\* transition changes nothing, and no step other than a call changes
\* ceilingVisible or starts a transition, so a request dropped during a
\* transition is not applied when the transition ends.
C20_SingleTransition ==
    [][ /\ tweens' \in {0, 1}
        /\ (tweens' = 1) = InFlight'
        /\ (last'.call /\ last'.started) =>
              (ceilingTween = Undef /\ tweens = 0)
        /\ tweens' > tweens => (last'.call /\ last'.started)
        /\ (last'.call /\ ceilingTween # Undef) => UNCHANGED controller
        /\ ~last'.call => ceilingVisible' = ceilingVisible ]_vars

\* C20 witness: a call made half way through the one transition in flight,
\* after the scene changed to one that resolves the opposite of the stored
\* boolean: the request is dropped.
C20_Witness ==
    /\ last.call
    /\ ~last.ran
    /\ tweens = 1
    /\ InFlight
    /\ ceilingTween.elapsed > 0
    /\ starts = 0
    /\ ~dead
    /\ scene.activePlayer # Undef
    /\ Resolve(ceilingHitbox, scene).visible # ceilingVisible

\* the structure is ready for an evaluation: alive, with a ceiling hitbox
\* and a viewer
Ready == ~dead /\ ceilingHitbox # Undef /\ scene.activePlayer # Undef

\* C21: the completion of the transition in flight clears ceilingTween
\* with alpha at the target; a call on a ready structure with ceilingTween
\* unset evaluates, and when it resolves the opposite of ceilingVisible it
\* stores it and starts a new transition, whether or not the flip had been
\* ignored during the transition before.
C21_CompletionReenables ==
    [][ /\ (InFlight /\ ceilingTween' = Undef) =>
              (alpha' = ceilingTween.to /\ tweens' = 0 /\ ~last'.call)
        /\ (last'.call /\ ceilingTween = Undef /\ Ready) =>
              /\ last'.ran
              /\ last'.visible # ceilingVisible =>
                    /\ last'.started
                    /\ ceilingVisible' = last'.visible
                    /\ InFlight'
                    /\ ceilingTween'.to = TweenTarget(last'.visible)
                    /\ ceilingTween'.from = alpha ]_vars

\* C21 witness: a show transition started from the fully hidden roof a
\* completed hide left behind, by the first evaluation of a scene that was
\* set while the hide was under way.
C21_Witness ==
    /\ last.call
    /\ last.started
    /\ ~last.visible
    /\ tweens = 1
    /\ ceilingTween.from = AlphaHidden
    /\ ceilingTween.elapsed = 0
    /\ starts = 1
    /\ \A e \in seen : ~e.visible /\ e.stored
    /\ seen # {}

\* the hitbox of a definition that line 248 transforms
ScopeOrCeiling(def) ==
    IF def.scopeHitbox # Undef THEN def.scopeHitbox ELSE def.ceilingHitbox

\* C22: after a full update the ceiling hitbox is the transform, by the
\* new position and orientation, of the definition's scopeHitbox when it
\* has one, else of its ceilingHitbox, and undefined when it has neither;
\* an update without full data leaves the ceiling hitbox, the hitbox, the
\* damageable flag, position and orientation unchanged.
C22_HitboxRecomputed ==
    [][ /\ last'.update = "full" =>
              /\ ceilingHitbox' =
                    Transform(ScopeOrCeiling(definition'), position',
                              orientation')
              /\ (definition'.scopeHitbox = Undef
                    /\ definition'.ceilingHitbox = Undef)
                    => ceilingHitbox' = Undef
        /\ last'.update = "partial" =>
              UNCHANGED <<ceilingHitbox, hitbox, damageable, position,
                          orientation>> ]_vars

\* C22 witness: a full update that moved a building whose definition has
\* both a scope hitbox and a ceiling hitbox of another shape.
C22_Witness ==
    /\ last.update = "full"
    /\ definition.scopeHitbox # Undef
    /\ definition.ceilingHitbox # Undef
    /\ definition.ceilingHitbox # definition.scopeHitbox
    /\ position = 1
    /\ ceilingHitbox = Transform(definition.scopeHitbox, 1, 1)

\* C23: whenever the structure is dead its roof is shown, alpha is 1, and
\* no transition is in flight: the update that carried dead = true
\* cancelled the transition and set alpha, and neither calls, tween ticks
\* nor further updates move alpha while the structure stays dead.
C23_DeadShowsRoof ==
    dead => (alpha = AlphaShown /\ ~InFlight /\ tweens = 0)

\* C23 witness: a call on a dead structure whose hide transition was
\* cancelled part of its way by the death update.
C23_Witness ==
    /\ dead
    /\ last.call
    /\ ceilingTween # Undef
    /\ ceilingTween.killed
    /\ ceilingTween.to = AlphaHidden
    /\ ceilingTween.elapsed > 0
    /\ alpha = AlphaShown

\* the alpha the roof is at or on its way to
SettledAlpha == IF InFlight THEN ceilingTween.to ELSE alpha

\* C24: in every state of a structure that is not dead (and not
\* destroyed), the target of the transition in flight, or alpha when none
\* is in flight, is 0 when ceilingVisible is true and 1 when it is false.
C24_StateAlphaConsistent ==
    (phase # "destroyed" /\ ~dead) =>
        SettledAlpha = TweenTarget(ceilingVisible)

\* the building is live and ready and the resolver yields b
Yields(b) ==
    /\ phase = "live"
    /\ Ready
    /\ Resolve(ceilingHitbox, scene).visible = b

\* the controller has settled on b: stored, no transition in flight, alpha
\* at b's target
Converged(b) ==
    /\ ceilingVisible = b
    /\ ~InFlight
    /\ alpha = TweenTarget(b)

\* C25: if from some point on the structure is live, not dead and ready
\* and the resolver keeps yielding the same boolean b, then under the game
\* loop's scheduling the controller eventually settles on b: ceilingVisible
\* is b, no transition is in flight and alpha is 0 if b and 1 if not, also
\* after a death update cancelled a transition.
C25_Converges ==
    /\ <>[]Yields(TRUE) => <>[]Converged(TRUE)
    /\ <>[]Yields(FALSE) => <>[]Converged(FALSE)

\* the scene with the viewer on layer pl and object n on layer f[n]
Relayered(sc, pl, f) ==
    [sc EXCEPT !.activePlayer.layer = pl,
               !.objects = [n \in 1..Len(sc.objects) |->
                               [sc.objects[n] EXCEPT !.layer = f[n]]]]

\* C26: the resolved boolean is the same on whatever layers the viewer
\* and the occluders are, and the same under every layer the building had
\* while its scenario stayed as it is; the resolved duration differs only
\* for a viewer on another layer who overlaps the hitbox (the fast-path
\* hide).
C26_LayerIndependent ==
    /\ \A a \in seen : \A b \in seen :
          a.layer # b.layer => a.visible = b.visible
    /\ Evaluated =>
          \A pl \in Layers :
              \A f \in [1..Len(scene.objects) -> Layers] :
                  \A r \in {Resolve(ceilingHitbox, Relayered(scene, pl, f))} :
                      /\ r.visible = last.visible
                      /\ r.duration # last.duration =>
                            /\ Overlaps
                            /\ r.visible
                            /\ pl # scene.activePlayer.layer

\* C26 witness: a viewer off the ground layer overlapping the hitbox,
\* with occluders around, evaluated under two layers of the building: the
\* same boolean, hidden at once.
C26_Witness ==
    /\ Evaluated
    /\ Overlaps
    /\ ~isGroundLayer(scene.activePlayer.layer)
    /\ last.visible
    /\ last.duration = LayerChangeDuration
    /\ Len(scene.objects) > 0
    /\ \E a \in seen : \E b \in seen : a.layer # b.layer

=============================================================================
